---- MODULE Spec2Model ----
(***************************************************************************)
(* PathTraverser of src/commands/SwerveAutoCommand.py: the traversal of a  *)
(* loaded path group, one sample() per control tick, with event-marker and *)
(* stop-event callbacks.  Times are integers (one unit = one clock step).  *)
(***************************************************************************)
EXTENDS Integers, Sequences, FiniteSets, TLC

VARIABLES
  path_group,            \* self.path_group: the loaded segments
  current_path_index,    \* self.current_path_index (0-based), self.current_path
  stop_event,            \* self.stop_event
  timer_running,         \* self.timer: started or not
  timer_value,           \* self.timer: what timer.get() reads now
  paths_traversed,       \* self.paths_traversed
  total_time,            \* self.total_time
  iterations,            \* self.iterations
  event_markers,         \* event_markers: pending markers, as <<segment, k>>
  event_callbacks,       \* event_callbacks: name -> callback
  stop_event_callbacks,  \* stop_event_callbacks: list of callbacks
  last,                  \* history: what the last call did and returned
  fired_count,           \* history: dispatches of each marker that invoked
                         \* a callback, since reset()
  readings,              \* history: clock readings added to total_time
  registered,            \* history: what on() was last called with, per name
  other,                 \* a second PathTraverser: which of the two the
                         \* variables above belong to, and the other's fields
  finished,              \* SwerveAutoCommand.finished
  module_states,         \* what the drive subsystem was last commanded
  ticked,                \* the clock has advanced since the last execute()
  initializations        \* initialize() calls so far

vars == <<path_group, current_path_index, stop_event, timer_running,
          timer_value, paths_traversed, total_time, iterations,
          event_markers, event_callbacks, stop_event_callbacks,
          last, fired_count, readings, registered, other,
          finished, module_states, ticked, initializations>>

\* what the calls on one traverser alone leave as it is
Extras ==
  <<registered, other, finished, module_states, ticked, initializations>>

\* ---------------------------------------------------------------- bounds
MaxTime == 3          \* largest clock reading explored
MaxSkew == 1          \* clock steps that may pass between two reads in a call
MaxIterations == 3    \* sample() calls of one run that return a state
MaxStopCallbacks == 2 \* length of the stop-event callback list
MaxInitializations == 2 \* initialize() calls on one command

\* ------------------------------------------------------------ the inputs
Names == {"a", "b"}
Callbacks == {"f", "g"}
\* callbacks that raise when called
RaisingCallbacks == {"bad"}
NoCallback == "none"
None == [path |-> -1, time |-> -1]
\* the drive subsystem before any set_module_states() call
NoCommand == [path |-> -3, time |-> -3]
\* the call ended with the error of a callback instead of a value
Raised == [path |-> -2, time |-> -2]

Marker(t, ns) == [time |-> t, names |-> ns]
Segment(d, ms, se) == [totalTime |-> d, markers |-> ms, stopEvent |-> se]

\* the scenario of the specification: A(2, "a"@1), B(1, no markers)
GroupScenario ==
  << Segment(2, << Marker(1, <<"a">>) >>, "stopA"),
     Segment(1, << >>, "stopB") >>

\* one name carried by two markers, one marker carrying two names
GroupSharedName ==
  << Segment(1, << Marker(0, <<"b">>) >>, "stopA"),
     Segment(2, << Marker(1, <<"a", "b">>), Marker(2, <<"a">>) >>, "stopB") >>

PathGroups == {GroupScenario, GroupSharedName}

\* ------------------------------------------------- the library's objects
Min(a, b) == IF a < b THEN a ELSE b

CurrentPath == path_group[current_path_index + 1]
GetTotalTime(p) == p.totalTime
GetEndStopEvent(p) == p.stopEvent
GetMarkers(i) == [k \in 1..Len(path_group[i + 1].markers) |-> <<i, k>>]
MarkerOf(m) == path_group[m[1] + 1].markers[m[2]]
\* PathPlannerTrajectory.sample clamps the time to the segment
PathSample(i, t) == [path |-> i, time |-> Min(t, GetTotalTime(path_group[i + 1]))]

\* ------------------------------------------------------------ the timer
\* timer.get() after d more clock steps, the timer running or not
TimerRead(running, d) == IF running THEN timer_value + d ELSE timer_value

\* timer.get() after d more clock steps
TimerGet(d) == TimerRead(timer_running, d)

\* ------------------------------------------------------------ helpers
NoMarker == <<-1, -1>>

RemoveFirst(list, x) ==
  LET i == CHOOSE j \in 1..Len(list) :
             list[j] = x /\ \A k \in 1..(j - 1) : list[k] # x
  IN  SubSeq(list, 1, i - 1) \o SubSeq(list, i + 1, Len(list))

\* get_new_event_marker: only the head of the list is looked at
GetNewEventMarker(markers, reading) ==
  IF Len(markers) = 0
  THEN [marker |-> NoMarker, rest |-> markers]
  ELSE IF MarkerOf(Head(markers)).time <= reading
       THEN [marker |-> Head(markers), rest |-> Tail(markers)]
       ELSE [marker |-> NoMarker, rest |-> markers]

\* the error of a callback is caught and the call goes on
RaisesCaught(cb) == FALSE

\* sample, lines 97 and 101: the call of cb ends with an error, which
\* nothing in sample() catches
Raises(cb) == cb \in RaisingCallbacks

\* sample, lines 92-98: for name in event_marker.names
RECURSIVE NamesLoop(_, _, _, _)
NamesLoop(names, i, cbs, fired) ==
  IF i > Len(names)
  THEN [fired |-> fired, cbs |-> cbs, raised |-> FALSE]
  ELSE LET cb == cbs[names[i]]
       IN  IF cb # NoCallback
           THEN IF Raises(cb)
                THEN [fired |-> Append(fired, <<names[i], cb>>),
                      cbs |-> cbs, raised |-> TRUE]
                ELSE NamesLoop(names, i + 1,
                               [cbs EXCEPT ![names[i]] = NoCallback],
                               Append(fired, <<names[i], cb>>))
           ELSE NamesLoop(names, i + 1, cbs, fired)

\* sample, lines 100-102: the list is iterated by position while
\* remove() takes out the first entry equal to the callback just called
RECURSIVE StopLoop(_, _, _)
StopLoop(list, i, fired) ==
  IF i > Len(list)
  THEN [fired |-> fired, remaining |-> list, raised |-> FALSE]
  ELSE IF Raises(list[i])
       THEN [fired |-> Append(fired, list[i]), remaining |-> list,
             raised |-> TRUE]
       ELSE StopLoop(RemoveFirst(list, list[i]), i + 1,
                     Append(fired, list[i]))

\* the completed segment's duration is added instead of the clock reading
TotalTimeAfterDuration(reading) == total_time + GetTotalTime(CurrentPath)

\* the timer is reset before it is read
TotalTimeAfterLateRead(reading) == total_time

\* move_to_next_path, line 75
TotalTimeAfter(reading) == total_time + reading

\* after the last segment the traversal starts over at segment 0
MoveToNextPathWrap(reading) ==
  IF current_path_index + 1 >= Len(path_group)
  THEN [traversed |-> FALSE, moved |-> TRUE,
        index |-> 0, total |-> TotalTimeAfter(reading)]
  ELSE [traversed |-> FALSE, moved |-> TRUE,
        index |-> current_path_index + 1, total |-> TotalTimeAfter(reading)]

\* move_to_next_path; reading is what timer.get() returns at line 75
MoveToNextPath(reading) ==
  IF current_path_index + 1 >= Len(path_group)
  THEN [traversed |-> TRUE, moved |-> FALSE,
        index |-> current_path_index, total |-> total_time]
  ELSE [traversed |-> FALSE, moved |-> TRUE,
        index |-> current_path_index + 1, total |-> TotalTimeAfter(reading)]

\* a reading equal to the duration counts as past the segment
BoundaryCrossedAtEnd(time) == time >= GetTotalTime(CurrentPath)

\* sample, line 99
BoundaryCrossed(time) == time > GetTotalTime(CurrentPath)

\* the guard of line 85 left out
EarlyReturnNever == FALSE

\* sample, line 85
EarlyReturn == paths_traversed

\* the sentinel returned by the call that finds no further segment
SampleResultSentinel(mv, time) ==
  IF mv.traversed THEN None ELSE PathSample(mv.index, time)

\* sample, line 107: the value returned by a call that got past line 85;
\* mv is what move_to_next_path made of the index and the exhausted flag
SampleResult(mv, time) == PathSample(mv.index, time)

\* the total time is taken from the timer that reset() is about to replace
ResetTotalTimeFromTimer == timer_value

\* reset, line 51
ResetTotalTime == 0

\* ------------------------------------------------------------ history
\* what a call did; the fields are filled in by sample()
Call(op) ==
  [op |-> op, index |-> 0, time |-> 0, reading |-> 0,
   marker |-> NoMarker, fired |-> << >>, pending |-> << >>, due |-> {},
   crossing |-> FALSE, stopBefore |-> << >>, stopFired |-> << >>,
   stopArg |-> "", moved |-> FALSE, exhausted |-> FALSE, early |-> FALSE,
   ret |-> None, resets |-> 0]

AllMarkers ==
  UNION { {<<i - 1, k>> : k \in 1..Len(path_group[i].markers)} :
          i \in 1..Len(path_group) }

\* the markers of the current segment that a tick reading `time` has gone
\* past while one of their names has a callback
Due(time) ==
  { m \in {<<current_path_index, k>> : k \in 1..Len(CurrentPath.markers)} :
      /\ MarkerOf(m).time < time
      /\ \E k \in 1..Len(MarkerOf(m).names) :
           event_callbacks[MarkerOf(m).names[k]] # NoCallback }

\* ------------------------------------------------------------ Init
NoRegistration == [cb |-> NoCallback, replaced |-> NoCallback]
NoOther == [self |-> 1, parked |-> << >>]

\* the state after PathTraverser(name): __init__ ends with reset()
Constructed ==
  /\ path_group \in PathGroups
  /\ current_path_index = 0
  /\ stop_event = GetEndStopEvent(path_group[1])
  /\ timer_running = FALSE
  /\ timer_value = 0
  /\ paths_traversed = FALSE
  /\ total_time = 0
  /\ iterations = 0
  /\ event_markers = << >>
  /\ event_callbacks = [n \in Names |-> NoCallback]
  /\ last = [Call("reset") EXCEPT !.resets = 1]
  /\ fired_count = [m \in AllMarkers |-> 0]
  /\ readings = << >>
  /\ registered = [n \in Names |-> NoRegistration]

\* one traverser, on its own
Init ==
  /\ Constructed
  /\ stop_event_callbacks = << >>
  /\ other = NoOther
  /\ finished = FALSE
  /\ module_states = NoCommand
  /\ ticked = FALSE
  /\ initializations = 0

\* ------------------------------------------------------------ actions
\* reset(): event_markers and the callback tables are not assigned
ResetCall ==
  /\ current_path_index' = 0
  /\ stop_event' = GetEndStopEvent(path_group[1])
  /\ timer_running' = FALSE
  /\ timer_value' = 0
  /\ paths_traversed' = FALSE
  /\ total_time' = ResetTotalTime
  /\ iterations' = 0
  /\ last' = [Call("reset") EXCEPT
                !.resets = IF last.op = "reset" THEN 2 ELSE 1]
  /\ fired_count' = [m \in AllMarkers |-> 0]
  /\ readings' = << >>
  /\ UNCHANGED <<path_group, event_markers, event_callbacks,
                 stop_event_callbacks>>

Reset == ResetCall /\ UNCHANGED Extras

\* start_timer(): Timer.start() does nothing when the timer runs
StartTimer ==
  /\ ~timer_running
  /\ timer_running' = TRUE
  /\ last' = Call("other")
  /\ UNCHANGED <<path_group, current_path_index, stop_event, timer_value,
                 paths_traversed, total_time, iterations, event_markers,
                 event_callbacks, stop_event_callbacks, fired_count, readings>>
  /\ UNCHANGED Extras

\* the first registration under a name is kept
OnValueFirst(name, func) ==
  IF event_callbacks[name] # NoCallback THEN event_callbacks[name] ELSE func

\* on, line 112: what the table holds under name after on(name, func)
OnValue(name, func) == func

\* on(name, func)
OnCall(name, func) ==
  /\ event_callbacks' = [event_callbacks EXCEPT ![name] = OnValue(name, func)]
  /\ last' = Call("other")
  /\ UNCHANGED <<path_group, current_path_index, stop_event, timer_running,
                 timer_value, paths_traversed, total_time, iterations,
                 event_markers, stop_event_callbacks, fired_count, readings>>

On(name, func) == OnCall(name, func) /\ UNCHANGED Extras

\* on_stop(func)
OnStop(func) ==
  /\ Len(stop_event_callbacks) < MaxStopCallbacks
  /\ stop_event_callbacks' = Append(stop_event_callbacks, func)
  /\ last' = Call("other")
  /\ UNCHANGED <<path_group, current_path_index, stop_event, timer_running,
                 timer_value, paths_traversed, total_time, iterations,
                 event_markers, event_callbacks, fired_count, readings>>
  /\ UNCHANGED Extras

\* the clock advances by d between two calls
ClockStep(d) ==
  /\ timer_running
  /\ timer_value + d <= MaxTime
  /\ timer_value' = timer_value + d
  /\ last' = Call("other")
  /\ UNCHANGED <<path_group, current_path_index, stop_event, timer_running,
                 paths_traversed, total_time, iterations, event_markers,
                 event_callbacks, stop_event_callbacks, fired_count,
                 readings>>

Advance(d) == ClockStep(d) /\ UNCHANGED Extras

\* sample(); d1 and d2 are the clock steps that pass between the reads of
\* the timer at line 89, line 64 and line 75; running tells whether the
\* timer runs when the call starts
SampleFrom(running, d1, d2) ==
  /\ IF running THEN timer_value + d1 + d2 <= MaxTime
                ELSE d1 = 0 /\ d2 = 0
  /\ IF EarlyReturn
     THEN /\ last' = [Call("sample") EXCEPT !.early = TRUE]
          /\ timer_running' = running
          /\ UNCHANGED <<path_group, current_path_index, stop_event,
                         timer_value, paths_traversed,
                         total_time, iterations, event_markers,
                         event_callbacks, stop_event_callbacks, fired_count,
                         readings>>
     ELSE LET time == TimerRead(running, 0)
              got == GetNewEventMarker(event_markers, TimerRead(running, d1))
              disp == IF got.marker # NoMarker
                      THEN NamesLoop(MarkerOf(got.marker).names, 1,
                                     event_callbacks, << >>)
                      ELSE [fired |-> << >>, cbs |-> event_callbacks,
                            raised |-> FALSE]
              crossing == ~disp.raised /\ BoundaryCrossed(time)
              stops == IF crossing
                       THEN StopLoop(stop_event_callbacks, 1, << >>)
                       ELSE [fired |-> << >>,
                             remaining |-> stop_event_callbacks,
                             raised |-> FALSE]
              raised == disp.raised \/ stops.raised
              mv == IF crossing /\ ~raised
                    THEN MoveToNextPath(TimerRead(running, d1 + d2))
                    ELSE [traversed |-> FALSE, moved |-> FALSE,
                          index |-> current_path_index, total |-> total_time]
              result == IF raised THEN Raised ELSE SampleResult(mv, time)
          IN  /\ event_callbacks' = disp.cbs
              /\ stop_event_callbacks' = stops.remaining
              /\ paths_traversed' = mv.traversed
              /\ current_path_index' = mv.index
              /\ total_time' = mv.total
              /\ timer_running' = (running \/ mv.moved)
              /\ timer_value' =
                   IF mv.moved THEN 0
                   ELSE TimerRead(running, IF raised THEN d1 ELSE d1 + d2)
              /\ event_markers' = IF mv.moved THEN GetMarkers(mv.index)
                                              ELSE got.rest
              /\ stop_event' = IF mv.moved
                               THEN GetEndStopEvent(path_group[mv.index + 1])
                               ELSE stop_event
              /\ iterations' = IF raised THEN iterations ELSE iterations + 1
              /\ last' = [Call("sample") EXCEPT
                            !.index = current_path_index,
                            !.time = time, !.reading = TimerRead(running, d1),
                            !.marker = got.marker, !.fired = disp.fired,
                            !.pending = got.rest, !.due = Due(time),
                            !.crossing = crossing,
                            !.stopBefore = IF crossing
                                           THEN stop_event_callbacks
                                           ELSE << >>,
                            !.stopFired = stops.fired,
                            !.stopArg = IF crossing THEN stop_event ELSE "",
                            !.moved = mv.moved,
                            !.exhausted = mv.traversed, !.ret = result]
              /\ fired_count' =
                   IF disp.fired # << >>
                   THEN [fired_count EXCEPT
                           ![got.marker] = Min(@ + 1, 2)]
                   ELSE fired_count
              /\ readings' = IF mv.moved
                             THEN Append(readings,
                                         TimerRead(running, d1 + d2))
                             ELSE readings
              /\ UNCHANGED path_group

\* sample()
Sample(d1, d2) ==
  /\ paths_traversed \/ iterations < MaxIterations
  /\ SampleFrom(timer_running, d1, d2)
  /\ UNCHANGED Extras

Next ==
  \/ Reset
  \/ StartTimer
  \/ \E n \in Names, f \in Callbacks : On(n, f)
  \/ \E f \in Callbacks : OnStop(f)
  \/ \E d \in 1..MaxTime : Advance(d)
  \/ \E d1 \in 0..MaxSkew, d2 \in 0..MaxSkew : Sample(d1, d2)

Spec == Init /\ [][Next]_vars

\* ------------------------------------------- registrations kept track of
\* on(name, func), with a record of func and of the binding it replaces
OnRegistered(name, func) ==
  /\ OnCall(name, func)
  /\ registered' = [registered EXCEPT
                      ![name] = [cb |-> func,
                                 replaced |-> event_callbacks[name]]]
  /\ UNCHANGED <<other, finished, module_states, ticked, initializations>>

NextRegistered ==
  \/ Reset
  \/ StartTimer
  \/ \E n \in Names, f \in Callbacks : OnRegistered(n, f)
  \/ \E d \in 1..MaxTime : Advance(d)
  \/ \E d1 \in 0..MaxSkew, d2 \in 0..MaxSkew : Sample(d1, d2)

SpecRegistered == Init /\ [][NextRegistered]_vars

\* ------------------------------------------- two traversers
\* The tables event_callbacks and stop_event_callbacks are attributes of
\* the class (lines 21-22) that on(), on_stop() and sample() change in
\* place, so both instances work on the same two objects; the other
\* fields are assigned per instance.  event_markers is the class's empty
\* list until an instance assigns its own at line 79.
InstanceFields ==
  [current_path_index |-> current_path_index, stop_event |-> stop_event,
   timer_running |-> timer_running, timer_value |-> timer_value,
   paths_traversed |-> paths_traversed, total_time |-> total_time,
   iterations |-> iterations, event_markers |-> event_markers,
   fired_count |-> fired_count, readings |-> readings]

\* each instance hands its own callback to on() and on_stop()
OwnCallback(i) == IF i = 1 THEN "f" ELSE "g"

InitTwo ==
  /\ Constructed
  /\ stop_event_callbacks = << >>
  /\ other = [self |-> 1,
              parked |->
                [current_path_index |-> 0,
                 stop_event |-> GetEndStopEvent(path_group[1]),
                 timer_running |-> FALSE, timer_value |-> 0,
                 paths_traversed |-> FALSE, total_time |-> 0,
                 iterations |-> 0, event_markers |-> << >>,
                 fired_count |-> [m \in AllMarkers |-> 0],
                 readings |-> << >>]]
  /\ finished = FALSE
  /\ module_states = NoCommand
  /\ ticked = FALSE
  /\ initializations = 0

\* the next call is made on the other instance
Switch ==
  /\ other' = [self |-> 3 - other.self, parked |-> InstanceFields]
  /\ current_path_index' = other.parked.current_path_index
  /\ stop_event' = other.parked.stop_event
  /\ timer_running' = other.parked.timer_running
  /\ timer_value' = other.parked.timer_value
  /\ paths_traversed' = other.parked.paths_traversed
  /\ total_time' = other.parked.total_time
  /\ iterations' = other.parked.iterations
  /\ event_markers' = other.parked.event_markers
  /\ fired_count' = other.parked.fired_count
  /\ readings' = other.parked.readings
  /\ last' = Call("other")
  /\ UNCHANGED <<path_group, event_callbacks, stop_event_callbacks,
                 registered, finished, module_states, ticked,
                 initializations>>

\* the clock advances by d: every running timer reads d more
AdvanceBoth(d) ==
  /\ timer_running \/ other.parked.timer_running
  /\ timer_running => timer_value + d <= MaxTime
  /\ other.parked.timer_running => other.parked.timer_value + d <= MaxTime
  /\ timer_value' = TimerRead(timer_running, d)
  /\ other' = [other EXCEPT
                 !.parked.timer_value =
                    IF other.parked.timer_running THEN @ + d ELSE @]
  /\ last' = Call("other")
  /\ UNCHANGED <<path_group, current_path_index, stop_event, timer_running,
                 paths_traversed, total_time, iterations, event_markers,
                 event_callbacks, stop_event_callbacks, fired_count,
                 readings, registered, finished, module_states, ticked,
                 initializations>>

NextTwo ==
  \/ Switch
  \/ StartTimer
  \/ \E n \in Names : On(n, OwnCallback(other.self))
  \/ OnStop(OwnCallback(other.self))
  \/ \E d \in 1..MaxTime : AdvanceBoth(d)
  \/ Sample(0, 0)

SpecTwo == InitTwo /\ [][NextTwo]_vars

\* ------------------------------------------- SwerveAutoCommand
\* end(interrupted) sets finished when it was interrupted
FinishedAfterEndInverted(interrupted) ==
  IF interrupted THEN TRUE ELSE finished

\* end(interrupted), lines 208-219: the value of finished afterwards
FinishedAfterEnd(interrupted) ==
  IF ~interrupted THEN TRUE ELSE finished

\* SwerveAutoCommand(swerve_subsystem): a traverser is made and
\* handle_stop is registered with on_stop()
InitCommand ==
  /\ Constructed
  /\ stop_event_callbacks = <<"handle_stop">>
  /\ other = NoOther
  /\ finished = FALSE
  /\ module_states = NoCommand
  /\ ticked = FALSE
  /\ initializations = 0

\* initialize()
Initialize ==
  /\ initializations < MaxInitializations
  /\ finished' = FALSE
  /\ ResetCall
  /\ initializations' = initializations + 1
  /\ ticked' = FALSE
  /\ UNCHANGED <<registered, other, module_states>>

\* the scheduler's period passes: the clock advances by d
Wait(d) ==
  /\ ClockStep(d)
  /\ ticked' = TRUE
  /\ UNCHANGED <<registered, other, finished, module_states,
                 initializations>>

\* execute(), called once per period: start_timer(), sample(), then
\* end(False) on None or move_to_state(state), which hands the module
\* states computed from state to the drive subsystem.  The clock has
\* advanced since the last execute(), unless the timer was not running
\* or reads MaxTime, which is past every segment's duration.
Execute(d1, d2) ==
  /\ ticked \/ ~timer_running \/ timer_value = MaxTime
  /\ SampleFrom(TRUE, d1, d2)
  /\ IF last'.ret = None
     THEN /\ finished' = FinishedAfterEnd(FALSE)
          /\ UNCHANGED module_states
     ELSE IF last'.ret = Raised
          THEN UNCHANGED <<finished, module_states>>
          ELSE /\ module_states' = last'.ret
               /\ UNCHANGED finished
  /\ ticked' = FALSE
  /\ UNCHANGED <<registered, other, initializations>>

Tick ==
  \/ \E d \in 1..MaxTime : Wait(d)
  \/ \E d1 \in 0..MaxSkew, d2 \in 0..MaxSkew : Execute(d1, d2)

NextCommand ==
  \/ Initialize
  \/ \E d \in 1..MaxTime : Wait(d)
  \/ \E d1 \in 0..MaxSkew, d2 \in 0..MaxSkew : Execute(d1, d2)

\* the scheduler keeps calling execute() and the clock keeps advancing
SpecCommand == InitCommand /\ [][NextCommand]_vars /\ WF_vars(Tick)

\* ------------------------------------------- callbacks that may raise
\* the callbacks handed to on() and on_stop(): one returns, one raises
MayRaise == {"f"} \cup RaisingCallbacks

NextRaise ==
  \/ Reset
  \/ StartTimer
  \/ \E n \in Names, f \in MayRaise : On(n, f)
  \/ \E f \in MayRaise : OnStop(f)
  \/ \E d \in 1..MaxTime : Advance(d)
  \/ \E d1 \in 0..MaxSkew, d2 \in 0..MaxSkew : Sample(d1, d2)

SpecRaise == Init /\ [][NextRaise]_vars

\* ------------------------------------------------------------ properties
RECURSIVE SumSeq(_)
SumSeq(q) == IF q = << >> THEN 0 ELSE Head(q) + SumSeq(Tail(q))

\* the sum of the total durations of the segments before segment i
RECURSIVE SumDurations(_)
SumDurations(i) ==
  IF i = 0 THEN 0 ELSE GetTotalTime(path_group[i]) + SumDurations(i - 1)

Pending == {event_markers[k] : k \in 1..Len(event_markers)}

Ran == last.op = "sample" /\ ~last.early

\* the state that reset() assigns
ProgramState ==
  <<path_group, current_path_index, stop_event, timer_running, timer_value,
    paths_traversed, total_time, iterations, event_markers, event_callbacks,
    stop_event_callbacks>>

\* C1: every marker of every segment (segment 0 included) whose name has a
\* callback is dispatched exactly once when a tick has read a clock time
\* past its trigger time: after such a tick the marker has invoked its
\* callback once, on a reading >= its time, no marker has done so twice,
\* and a marker that did is not pending in its own segment any more.
C1_MarkerFiresExactlyOnce ==
  Ran =>
    /\ \A m \in last.due : fired_count[m] = 1
    /\ \A m \in AllMarkers : fired_count[m] <= 1
    /\ last.fired # << >> => last.reading >= MarkerOf(last.marker).time
    /\ \A m \in AllMarkers :
         (fired_count[m] >= 1 /\ m[1] = last.index) => m \notin Pending

\* C2: one sample() that reads the time t dispatches all the pending
\* markers whose time is <= t: after its dispatch step no pending marker
\* with a time <= t is left.
C2_NoDueMarkerLeft ==
  Ran => \A k \in 1..Len(last.pending) :
           MarkerOf(last.pending[k]).time > last.time

\* C3: on a tick whose clock reading exceeds the segment's total duration
\* every callback of the stop-event list is invoked exactly once with the
\* segment's stop event, in registration order.
C3_AllStopCallbacksInvoked ==
  (Ran /\ last.crossing) =>
    /\ last.stopFired = last.stopBefore
    /\ last.stopArg = GetEndStopEvent(path_group[last.index + 1])

\* C4: after a boundary-crossing tick the stop-event callback list is
\* empty, so no callback fires at a second boundary without a new
\* on_stop().
C4_StopListEmptyAfterCrossing ==
  (Ran /\ last.crossing) => stop_event_callbacks = << >>

\* C5 as stated: the tick that finds no further segment sets
\* paths_traversed and returns the sentinel None.
C5_ExhaustingTickReturnsSentinel ==
  (Ran /\ last.exhausted) => (paths_traversed /\ last.ret = None)

\* C5 as amended: the tick that finds no further segment sets
\* paths_traversed and returns the state of the last segment at the time
\* it read (the end state, the time being past the duration), not None.
C5_ExhaustingTickReturnsLastState ==
  (Ran /\ last.exhausted) =>
    /\ paths_traversed
    /\ current_path_index = last.index
    /\ current_path_index + 1 = Len(path_group)
    /\ last.ret = PathSample(current_path_index, last.time)
    /\ last.ret.time = GetTotalTime(CurrentPath)
    /\ last.ret # None

C5_Witness == Ran /\ last.exhausted /\ last.index = 1

\* C6: once paths_traversed is set, every sample() returns None, invokes
\* no marker or stop-event callback and leaves the traversal state alone.
C6_SampleAfterExhaustion ==
  [][(paths_traversed /\ last'.op = "sample") =>
       /\ last'.ret = None
       /\ last'.fired = << >>
       /\ last'.stopFired = << >>
       /\ UNCHANGED ProgramState]_vars

C6_Witness ==
  /\ paths_traversed
  /\ last.op = "sample" /\ last.early /\ last.ret = None
  /\ stop_event_callbacks # << >>
  /\ timer_value > GetTotalTime(CurrentPath)

\* C7: after reset() the index is 0, the cumulative time is 0, the
\* traverser is not exhausted, the pending markers are those of segment 0,
\* the stop event is that of segment 0 and the clock runs from 0.
C7_StateAfterReset ==
  last.op = "reset" =>
    /\ current_path_index = 0
    /\ total_time = 0
    /\ ~paths_traversed
    /\ event_markers = GetMarkers(0)
    /\ stop_event = GetEndStopEvent(path_group[1])
    /\ timer_running
    /\ timer_value = 0

\* C8: a reset() that follows a reset() changes nothing of the state the
\* later calls depend on, so the calls after reset(); reset() behave as
\* after a single reset().
C8_ResetIdempotent ==
  [][(last.op = "reset" /\ last'.op = "reset") =>
       UNCHANGED <<ProgramState, fired_count, readings>>]_vars

C8_Witness ==
  /\ last.op = "reset" /\ last.resets = 2
  /\ event_markers # << >>
  /\ stop_event_callbacks # << >>

\* C9 as stated: total_time is the sum of the total durations of the
\* segments completed so far.
C9_TotalIsSumOfDurations ==
  total_time = SumDurations(current_path_index)

\* C9 as amended: total_time is the sum of the clock readings taken at the
\* transitions made so far, one per completed segment, each greater than
\* the total duration of the segment it completed.
C9_TotalIsSumOfReadings ==
  /\ Len(readings) = current_path_index
  /\ total_time = SumSeq(readings)
  /\ \A i \in 1..Len(readings) : readings[i] > GetTotalTime(path_group[i])
  /\ total_time >= SumDurations(current_path_index) + current_path_index

C9_Witness == Ran /\ last.moved /\ total_time > 0

\* C10: the cumulative elapsed time, total_time plus the clock reading,
\* never decreases within a run, segment transitions included.
C10_CumulativeTimeMonotonic ==
  [][last'.op # "reset" =>
       total_time' + timer_value' >= total_time + timer_value]_vars

C10_Witness ==
  /\ Ran /\ last.moved /\ current_path_index = 1
  /\ timer_value = 0 /\ total_time > GetTotalTime(path_group[1])

\* C11: between two reset() calls the segment index never decreases, grows
\* by at most one per sample() call, is changed by no other call, and is
\* always within 0 .. len(path_group) - 1.
C11_IndexMonotonic ==
  /\ [](current_path_index \in 0..(Len(path_group) - 1))
  /\ [][last'.op # "reset" =>
          /\ current_path_index' >= current_path_index
          /\ current_path_index' <= current_path_index + 1
          /\ current_path_index' # current_path_index =>
               last'.op = "sample"]_vars

C11_Witness ==
  /\ Ran /\ last.moved /\ last.index = 0
  /\ current_path_index = Len(path_group) - 1

\* C12: within one run a marker's callbacks fire at most once; the step
\* that fires a marker takes the marker out of the pending list and takes
\* out every binding it invoked.
C12_MarkerFiresAtMostOnce ==
  /\ \A m \in AllMarkers : fired_count[m] <= 1
  /\ (Ran /\ last.fired # << >>) =>
       /\ \A k \in 1..Len(last.pending) : last.pending[k] # last.marker
       /\ \A k \in 1..Len(last.fired) :
            event_callbacks[last.fired[k][1]] = NoCallback

\* C17: a sample() that gets past line 85 moves to the next segment if and
\* only if the time it read is strictly greater than the current segment's
\* total duration and a next segment exists; it then raises the index by
\* one, restarts the clock from 0 and loads the new segment's markers and
\* stop event; no other call changes the index except reset().
C17_TransitionOnFirstTickPastDuration ==
  [][last'.op # "reset" =>
       IF /\ last'.op = "sample" /\ ~last'.early
          /\ last'.time > GetTotalTime(CurrentPath)
          /\ current_path_index + 1 < Len(path_group)
       THEN /\ current_path_index' = current_path_index + 1
            /\ timer_running' /\ timer_value' = 0
            /\ event_markers' = [k \in 1..Len(CurrentPath'.markers) |->
                                   <<current_path_index', k>>]
            /\ stop_event' = GetEndStopEvent(CurrentPath')
       ELSE current_path_index' = current_path_index]_vars

C17_Witness ==
  /\ Ran /\ last.moved
  /\ last.time = GetTotalTime(path_group[last.index + 1]) + 1
  /\ event_markers # << >>

\* C18: the state returned by a sample() that does not return None is
\* taken from the segment that is current when the call returns, at that
\* segment's own clock time: on a transition tick the restarted clock
\* (0), otherwise the time the call read.
C18_ReturnedStateOfCurrentSegment ==
  Ran =>
    /\ last.ret.path = current_path_index
    /\ last.ret = PathSample(current_path_index,
                             IF last.moved THEN 0 ELSE last.time)

\* C20: every marker in the pending list belongs to the segment at the
\* current segment index.
C20_PendingMarkersOfCurrentSegment ==
  \A m \in Pending : m[1] = current_path_index

\* the call l invoked a callback that raises
MarkerCallbackRaised(l) ==
  \E k \in 1..Len(l.fired) : l.fired[k][2] \in RaisingCallbacks
StopCallbackRaised(l) ==
  \E k \in 1..Len(l.stopFired) : l.stopFired[k] \in RaisingCallbacks

\* C15: when a marker callback or a stop-event callback raises during
\* sample(), the call ends with that error and does none of the later
\* steps: the raising callback is the last one invoked, no stop-event
\* dispatch follows a raising marker callback, there is no segment
\* transition, no exhaustion, no iteration increment and no state returned.
C15_RaisingCallbackEndsSample ==
  [][(last'.op = "sample" /\ (MarkerCallbackRaised(last')
                              \/ StopCallbackRaised(last'))) =>
       /\ last'.ret = Raised
       /\ MarkerCallbackRaised(last') =>
            /\ last'.fired[Len(last'.fired)][2] \in RaisingCallbacks
            /\ \A k \in 1..(Len(last'.fired) - 1) :
                 last'.fired[k][2] \notin RaisingCallbacks
            /\ last'.stopFired = << >>
            /\ stop_event_callbacks' = stop_event_callbacks
       /\ StopCallbackRaised(last') =>
            /\ last'.stopFired[Len(last'.stopFired)] \in RaisingCallbacks
            /\ \A k \in 1..(Len(last'.stopFired) - 1) :
                 last'.stopFired[k] \notin RaisingCallbacks
       /\ ~last'.moved /\ ~last'.exhausted
       /\ UNCHANGED <<current_path_index, stop_event, paths_traversed,
                      total_time, iterations, readings>>]_vars

C15_Witness ==
  /\ last.op = "sample" /\ last.ret = Raised
  /\ last.stopBefore = <<"bad", "f">> /\ last.stopFired = <<"bad">>
  /\ stop_event_callbacks = <<"bad", "f">>
  /\ current_path_index + 1 < Len(path_group)

\* C14: when on(name, f) is followed by on(name, g) before a marker with
\* that name fires, the marker that fires invokes g, once, and not f: the
\* callback invoked for a name is the one of the last on() for that name.
C14_LastRegistrationWins ==
  Ran =>
    \A k \in 1..Len(last.fired) :
      /\ last.fired[k][2] = registered[last.fired[k][1]].cb
      /\ \A j \in 1..Len(last.fired) :
           last.fired[j][1] = last.fired[k][1] => j = k

C14_Witness ==
  /\ Ran
  /\ \E k \in 1..Len(last.fired) :
       /\ registered[last.fired[k][1]].replaced # NoCallback
       /\ registered[last.fired[k][1]].replaced # last.fired[k][2]

\* C13: a callback registered with on() or on_stop() on one PathTraverser
\* is never invoked, and so never removed, by sample() on the other one:
\* every callback a sample() invokes was registered on its own instance.
C13_CallbacksPerInstance ==
  last.op = "sample" =>
    /\ \A k \in 1..Len(last.fired) :
         last.fired[k][2] = OwnCallback(other.self)
    /\ \A k \in 1..Len(last.stopFired) :
         last.stopFired[k] = OwnCallback(other.self)

\* module states that command the drive to stop
StopCommand == [path |-> -4, time |-> -4]

\* C16: when sample() returns None, execute() makes the command finished
\* and the drive subsystem is commanded to stop, not left with the module
\* states of the last tick that returned a state.
C16_SentinelHaltsActuation ==
  (last.op = "sample" /\ last.ret = None) =>
    /\ finished
    /\ module_states = StopCommand

\* C19: with execute() called again and again and the clock advancing
\* between the calls, the traverser becomes exhausted and the command
\* finished, and finished stays true until the next initialize().
C19_EventuallyFinished ==
  /\ <>[](paths_traversed /\ finished)
  /\ [][(finished /\ ~finished') =>
          initializations' = initializations + 1]_vars

C19_Witness ==
  /\ finished /\ paths_traversed
  /\ initializations = 1
  /\ last.op = "sample" /\ last.early
  /\ iterations > 2

====
